---- MODULE Spec2Model ----
(***************************************************************************)
(* A model of the nanda demo agent (src/agent.py): the fixed-window rate   *)
(* limiter, the JSON memory file with its write-to-temp-then-replace save, *)
(* the slash-command tools and the improve() handler that the NANDA        *)
(* framework calls once per incoming message.                              *)
(* A last part models the request counter of the SPX service              *)
(* (src/spx-today/service.py).                                             *)
(*                                                                         *)
(* Texts are sequences of character tokens (one-element strings, or a      *)
(* named code point such as "U03A3"); a fixed literal of the source is one *)
(* token.  A file is a sequence of such tokens.                            *)
(***************************************************************************)
EXTENDS Integers, Sequences, FiniteSets, TLC

VARIABLES
    clock,            \* time.time(), in whole seconds
    _last_bucket,     \* agent.py:29
    _msgs_in_bucket,  \* agent.py:30
    rl_ret,           \* what the last ratelimit_ok() call returned
    rl_calls,         \* calls made since the window was last fresh
    rl_clock,         \* the clock at the last ratelimit_ok() call
    rl_denied,        \* the wall-clock bucket of the last call that returned False
    mem,              \* agent.py:28, the in-memory document
    disk,             \* the file at MEM_PATH
    tmpf,             \* the file at MEM_PATH + ".tmp"
    pc,               \* where improve() stands for the current message
    sv,               \* where the running save_mem() stands
    msg,              \* message_text of the current message
    tool_out,         \* agent.py:98, the value try_tools returned
    outs,             \* the strings improve() has returned for this message
    path,             \* the states improve() went through for this message
    err,              \* the operation whose exception left improve()
    saved,            \* the document of the last save_mem() that replaced MEM_PATH
    fresh,            \* mem is exactly what load_mem() returned
    loadsrc,          \* what load_mem() found at MEM_PATH when it last ran
    faults,           \* storage failures injected so far
    restarts,         \* process restarts so far
    fx, fq, fres,     \* the text, the query and the result of a remember/recall pair
    tally,            \* metrics.messages as loaded, and how the calls since have ended
    threads,          \* the ratelimit_ok() calls of concurrent threads
    serialized,       \* the caller runs one ratelimit_ok() call at a time
    req_count,        \* service.py:151, SpxToday.req_count
    svc_reqs,         \* the /svc/summary requests received, each with its position
    svc_handled,      \* /svc/summary requests that have run service.py:168
    svc_health        \* the last response of another endpoint; for /svc/healthz its
                      \* requests value and svc_handled at that time

vars == <<clock, _last_bucket, _msgs_in_bucket, rl_ret, rl_calls, rl_clock, rl_denied,
          mem, disk, tmpf, pc, sv, msg, tool_out, outs, path, err, saved,
          fresh, loadsrc, faults, restarts, fx, fq, fres, tally,
          threads, serialized, req_count, svc_reqs, svc_handled, svc_health>>

rateVars == <<_last_bucket, _msgs_in_bucket, rl_ret, rl_calls, rl_clock, rl_denied>>
storeVars == <<mem, disk, tmpf, sv, saved, fresh, loadsrc, faults>>
msgVars == <<pc, msg, tool_out, outs, path, err>>
pairVars == <<fx, fq, fres>>
raceVars == <<threads, serialized>>
svcVars == <<req_count, svc_reqs, svc_handled, svc_health>>

-----------------------------------------------------------------------------
(* Bounds of the model *)

MaxTicks == 2          \* clock advances while the rate limiter alone runs
MaxAgentTicks == 1     \* clock advances while the agent runs
TickSeconds == 30      \* seconds per clock advance
MaxCalls == 62         \* ratelimit_ok() calls counted within one window
MaxNotes == 2          \* notes the document may hold
MaxMessages == 2       \* value of metrics.messages up to which messages arrive
MaxBurst == 61         \* the same, for a burst of messages within one minute
MaxFaults == 1         \* injected storage failures
MaxRestarts == 1       \* process restarts
MaxLen == 2            \* length of a remembered text in the remember/recall pair
MaxThreads == 2        \* threads calling ratelimit_ok() concurrently
MaxRequests == 3       \* requests the SPX service receives

(* Program constants *)

RATE_LIMIT_PER_MIN == 60
BucketSeconds == 60
RecallLimit == 5
HintLimit == 2

-----------------------------------------------------------------------------
(* Characters and the str methods the source applies to them *)

QUOTE == "\""
BSLASH == "\\"
SPACE == " "
CAP_SIGMA == "U03A3"     \* GREEK CAPITAL LETTER SIGMA
SIGMA == "U03C3"         \* GREEK SMALL LETTER SIGMA
FINAL_SIGMA == "U03C2"   \* GREEK SMALL LETTER FINAL SIGMA

NonAscii == {CAP_SIGMA, SIGMA, FINAL_SIGMA}
Cased == {"a", "A", "b", "B", CAP_SIGMA, SIGMA, FINAL_SIGMA}

RECURSIVE LStrip(_)
LStrip(s) ==
    IF s # <<>> /\ Head(s) = SPACE THEN LStrip(Tail(s)) ELSE s

RECURSIVE RStrip(_)
RStrip(s) ==
    IF s # <<>> /\ s[Len(s)] = SPACE THEN RStrip(SubSeq(s, 1, Len(s) - 1)) ELSE s

\* str.strip()
Strip(s) == RStrip(LStrip(s))

\* str.lower() of one character at position i of s: a capital sigma that
\* follows a cased character and is followed by none lowers to the final form
LowerAt(s, i) ==
    CASE s[i] = "A" -> "a"
      [] s[i] = "B" -> "b"
      [] s[i] = "REMEMBER" -> "remember"
      [] s[i] = "RECALL" -> "recall"
      [] s[i] = "CALC" -> "calc"
      [] s[i] = "Ignore Previous" -> "ignore previous"
      [] s[i] = CAP_SIGMA ->
            IF /\ i > 1
               /\ s[i - 1] \in Cased
               /\ (i = Len(s) \/ s[i + 1] \notin Cased)
            THEN FINAL_SIGMA ELSE SIGMA
      [] OTHER -> s[i]

\* str.lower()
Lower(s) == [i \in 1..Len(s) |-> LowerAt(s, i)]

\* the `in` operator on two strings
Contains(s, q) ==
    \E i \in 0..(Len(s) - Len(q)) : SubSeq(s, i + 1, i + Len(q)) = q

\* seq[-n:]
LastN(s, n) == IF Len(s) <= n THEN s ELSE SubSeq(s, Len(s) - n + 1, Len(s))

\* sep.join(parts)
RECURSIVE Join(_, _)
Join(sep, parts) ==
    IF parts = <<>> THEN <<>>
    ELSE IF Len(parts) = 1 THEN parts[1]
    ELSE parts[1] \o sep \o Join(sep, Tail(parts))

-----------------------------------------------------------------------------
(* JSON: json.dump and json.load on the memory document *)

Digits == <<"0", "1", "2", "3", "4", "5", "6", "7", "8", "9">>

RECURSIVE JNum(_)
JNum(n) == IF n < 10 THEN <<Digits[n + 1]>>
           ELSE JNum(n \div 10) \o <<Digits[(n % 10) + 1]>>

NoEscape(s) == s

RECURSIVE Escape(_)
Escape(s) ==
    IF s = <<>> THEN <<>>
    ELSE (IF Head(s) \in {QUOTE, BSLASH} THEN <<BSLASH, Head(s)>>
          ELSE IF Head(s) \in NonAscii THEN <<BSLASH, "u", Head(s)>>
          ELSE <<Head(s)>>) \o Escape(Tail(s))

JStr(s) == <<QUOTE>> \o Escape(s) \o <<QUOTE>>

JNote(n) ==
    <<"{">> \o JStr(<<"text">>) \o <<":">> \o JStr(n.text) \o <<",">>
            \o JStr(<<"ts">>) \o <<":">> \o JStr(n.ts) \o <<"}">>

JNotes(ns) ==
    <<"[">> \o Join(<<",">>, [i \in 1..Len(ns) |-> JNote(ns[i])]) \o <<"]">>

\* json.dump(mem, f, indent=2), without the white space of the indentation
Dump(d) ==
    <<"{">> \o JStr(<<"notes">>) \o <<":">> \o JNotes(d.notes) \o <<",">>
            \o JStr(<<"metrics">>) \o <<":">> \o <<"{">>
            \o JStr(<<"messages">>) \o <<":">> \o JNum(d.metrics.messages) \o <<",">>
            \o JStr(<<"start_ts">>) \o <<":">> \o JNum(d.metrics.start_ts)
            \o <<"}">> \o <<"}">>

\* the state of the parser: the position of the next token and what was read
PStart ==
    [ok |-> TRUE, pos |-> 1, str |-> <<>>, num |-> 0, text |-> <<>>,
     notes |-> <<>>, messages |-> 0, start_ts |-> 0]

PFail(st) == [st EXCEPT !.ok = FALSE]

DigitValue(c) == CHOOSE k \in 0..9 : Digits[k + 1] = c
IsDigit(c) == \E k \in 1..10 : Digits[k] = c

\* the token at position i is c
At(t, i, c) == i <= Len(t) /\ t[i] = c

\* the tokens `lit` are next
PLit(t, st, lit) ==
    IF /\ st.ok
       /\ st.pos + Len(lit) - 1 <= Len(t)
       /\ SubSeq(t, st.pos, st.pos + Len(lit) - 1) = lit
    THEN [st EXCEPT !.pos = @ + Len(lit)]
    ELSE PFail(st)

\* the characters of a string literal up to its closing quote
RECURSIVE PStrBody(_, _)
PStrBody(t, st) ==
    IF st.pos > Len(t) THEN PFail(st)
    ELSE IF t[st.pos] = QUOTE THEN [st EXCEPT !.pos = @ + 1]
    ELSE IF t[st.pos] = BSLASH
    THEN IF st.pos + 1 <= Len(t) /\ t[st.pos + 1] \in {QUOTE, BSLASH}
         THEN PStrBody(t, [st EXCEPT !.pos = @ + 2, !.str = Append(@, t[st.pos + 1])])
         ELSE IF st.pos + 2 <= Len(t) /\ t[st.pos + 1] = "u" /\ t[st.pos + 2] \in NonAscii
         THEN PStrBody(t, [st EXCEPT !.pos = @ + 3, !.str = Append(@, t[st.pos + 2])])
         ELSE PFail(st)
    ELSE PStrBody(t, [st EXCEPT !.pos = @ + 1, !.str = Append(@, t[st.pos])])

\* a string literal is next: st.str becomes its value
PStr(t, st) ==
    IF st.ok /\ At(t, st.pos, QUOTE)
    THEN PStrBody(t, [st EXCEPT !.pos = @ + 1, !.str = <<>>])
    ELSE PFail(st)

RECURSIVE PNumBody(_, _)
PNumBody(t, st) ==
    IF st.pos <= Len(t) /\ IsDigit(t[st.pos])
    THEN PNumBody(t, [st EXCEPT !.pos = @ + 1, !.num = 10 * @ + DigitValue(t[st.pos])])
    ELSE st

\* a number without sign, fraction or leading zero is next: st.num becomes its value
PNum(t, st) ==
    IF st.ok /\ st.pos <= Len(t) /\ IsDigit(t[st.pos])
           /\ ~(t[st.pos] = "0" /\ st.pos + 1 <= Len(t) /\ IsDigit(t[st.pos + 1]))
    THEN PNumBody(t, [st EXCEPT !.num = 0])
    ELSE PFail(st)

KeepText(st) == [st EXCEPT !.text = st.str]
KeepNote(st) == [st EXCEPT !.notes = Append(@, [text |-> st.text, ts |-> st.str])]
KeepMessages(st) == [st EXCEPT !.messages = st.num]
KeepStart(st) == [st EXCEPT !.start_ts = st.num]

\* one note object is next
PNote(t, st) ==
    KeepNote(PLit(t,
        PStr(t, PLit(t,
            KeepText(PStr(t, PLit(t, st, <<"{">> \o JStr(<<"text">>) \o <<":">>))),
            <<",">> \o JStr(<<"ts">>) \o <<":">>)),
        <<"}">>))

RECURSIVE PNotesBody(_, _)
PNotesMore(t, st) ==
    IF st.ok /\ At(t, st.pos, ",")
    THEN PNotesBody(t, [st EXCEPT !.pos = @ + 1])
    ELSE PLit(t, st, <<"]">>)

PNotesBody(t, st) == PNotesMore(t, PNote(t, st))

PNotesOpen(t, st) ==
    IF st.ok /\ At(t, st.pos, "]") THEN [st EXCEPT !.pos = @ + 1]
    ELSE PNotesBody(t, st)

\* the array of the notes is next
PNotes(t, st) == PNotesOpen(t, PLit(t, st, <<"[">>))

PDoc(t) ==
    PLit(t,
        KeepStart(PNum(t, PLit(t,
            KeepMessages(PNum(t, PLit(t,
                PNotes(t, PLit(t, PStart, <<"{">> \o JStr(<<"notes">>) \o <<":">>)),
                <<",">> \o JStr(<<"metrics">>) \o <<":">> \o <<"{">>
                        \o JStr(<<"messages">>) \o <<":">>))),
            <<",">> \o JStr(<<"start_ts">>) \o <<":">>))),
        <<"}", "}">>)

PResult(t, st) ==
    IF st.ok /\ st.pos = Len(t) + 1
    THEN [ok |-> TRUE,
          val |-> [notes |-> st.notes,
                   metrics |-> [messages |-> st.messages, start_ts |-> st.start_ts]]]
    ELSE [ok |-> FALSE, val |-> <<>>]

\* json.load(f) on a file holding the tokens t: the document, or a failure
\* (json.JSONDecodeError).  Only files of the memory document's layout parse.
JsonLoad(t) == PResult(t, PDoc(t))

-----------------------------------------------------------------------------
(* The files at MEM_PATH and MEM_PATH + ".tmp".  `kind` is the provenance   *)
(* of the content and is read by no operation of the program.               *)

NoFile == [exists |-> FALSE, readable |-> TRUE, kind |-> "missing", data |-> <<>>]

FileOf(k, r, t) == [exists |-> TRUE, readable |-> r, kind |-> k, data |-> t]

\* what a writer that stopped early leaves behind
Truncated(t) == SubSeq(t, 1, Len(t) \div 2)

Stamp(t) == JNum(t) \o <<"Z">>

Note(x, t) == [text |-> x, ts |-> Stamp(t)]

DefaultDoc(t) == [notes |-> <<>>, metrics |-> [messages |-> 0, start_ts |-> t]]

\* the result of load_mem() at time t when MEM_PATH holds f, with the
\* exception it would let escape (none: every one is caught)
NoCatch_load_mem(f, t) ==
    IF f.exists
    THEN IF f.readable /\ JsonLoad(f.data).ok
         THEN [raised |-> FALSE, doc |-> JsonLoad(f.data).val]
         ELSE [raised |-> TRUE, doc |-> DefaultDoc(t)]
    ELSE [raised |-> FALSE, doc |-> DefaultDoc(t)]

load_mem(f, t) ==
    IF f.exists
    THEN IF f.readable /\ JsonLoad(f.data).ok
         THEN [raised |-> FALSE, doc |-> JsonLoad(f.data).val]
         ELSE [raised |-> FALSE, doc |-> DefaultDoc(t)]
    ELSE [raised |-> FALSE, doc |-> DefaultDoc(t)]

\* what load_mem() met at MEM_PATH, told from the file's provenance
FoundAt(f) ==
    IF ~f.exists THEN "missing"
    ELSE IF ~f.readable THEN "unreadable"
    ELSE IF f.kind = "document" THEN "document"
    ELSE "unparsable"

-----------------------------------------------------------------------------
(* The rate limiter *)

Bucket(t) == t \div BucketSeconds

\* ratelimit_ok() at time t with the globals lb and n: the value returned and
\* the globals it leaves
BadLimit_ratelimit_ok(t, lb, n) ==
    LET nb == Bucket(t)
        n1 == IF nb # lb THEN 0 ELSE n
    IN  IF n1 > RATE_LIMIT_PER_MIN
        THEN [ret |-> FALSE, last |-> nb, n |-> n1]
        ELSE [ret |-> TRUE, last |-> nb, n |-> n1 + 1]

CountDenied_ratelimit_ok(t, lb, n) ==
    LET nb == Bucket(t)
        n1 == IF nb # lb THEN 0 ELSE n
    IN  IF n1 >= RATE_LIMIT_PER_MIN
        THEN [ret |-> FALSE, last |-> nb, n |-> n1 + 1]
        ELSE [ret |-> TRUE, last |-> nb, n |-> n1 + 1]

NoReset_ratelimit_ok(t, lb, n) ==
    LET nb == Bucket(t)
    IN  IF n >= RATE_LIMIT_PER_MIN
        THEN [ret |-> FALSE, last |-> nb, n |-> n]
        ELSE [ret |-> TRUE, last |-> nb, n |-> n + 1]

ratelimit_ok(t, lb, n) ==
    LET nb == Bucket(t)
        lb1 == IF nb # lb THEN nb ELSE lb
        n1 == IF nb # lb THEN 0 ELSE n
    IN  IF n1 >= RATE_LIMIT_PER_MIN
        THEN [ret |-> FALSE, last |-> lb1, n |-> n1]
        ELSE [ret |-> TRUE, last |-> lb1, n |-> n1 + 1]

\* the number of this call among the calls of its wall-clock bucket
CallNumber == IF Bucket(clock) # Bucket(rl_clock) THEN 1 ELSE rl_calls + 1

\* one call of ratelimit_ok()
RatelimitCall ==
    LET r == ratelimit_ok(clock, _last_bucket, _msgs_in_bucket) IN
    /\ CallNumber <= MaxCalls
    /\ _last_bucket' = r.last
    /\ _msgs_in_bucket' = r.n
    /\ rl_ret' = IF r.ret THEN "admit" ELSE "deny"
    /\ rl_calls' = CallNumber
    /\ rl_clock' = clock
    /\ rl_denied' = IF r.ret THEN rl_denied ELSE Bucket(clock)

\* the wall clock advances
TickWithin(n) ==
    /\ clock + TickSeconds <= n * TickSeconds
    /\ clock' = clock + TickSeconds
    /\ UNCHANGED <<rateVars, storeVars, msgVars, restarts, pairVars, raceVars, svcVars, tally>>

-----------------------------------------------------------------------------
(* The tools *)

LDQUO == "U201C"
RDQUO == "U201D"
NEWLINE == "\n"

None == [none |-> TRUE, text |-> <<>>]
Str(t) == [none |-> FALSE, text |-> t]

CalcChars == {"0", "1", "2", "3", "4", "5", "6", "7", "8", "9",
              "+", "-", "*", "/", "(", ")", ".", SPACE}

\* re.sub(r"[^0-9+\-*/(). ]", "", expr)
Sanitize(expr) == SelectSeq(expr, LAMBDA c : c \in CalcChars)

\* eval() of a sanitized expression, for the expressions `digit` and
\* `digit op digit`: the value's text, or the exception's
CalcEval(e) ==
    LET c == Strip(e) IN
    IF Len(c) = 1 /\ IsDigit(c[1]) THEN [ok |-> TRUE, text |-> c]
    ELSE IF Len(c) = 3 /\ IsDigit(c[1]) /\ IsDigit(c[3]) /\ c[2] \in {"+", "-", "*", "/"}
    THEN LET a == DigitValue(c[1])
             b == DigitValue(c[3])
         IN  CASE c[2] = "+" -> [ok |-> TRUE, text |-> JNum(a + b)]
               [] c[2] = "-" /\ a >= b -> [ok |-> TRUE, text |-> JNum(a - b)]
               [] c[2] = "-" /\ a < b -> [ok |-> TRUE, text |-> <<"-">> \o JNum(b - a)]
               [] c[2] = "*" -> [ok |-> TRUE, text |-> JNum(a * b)]
               [] c[2] = "/" /\ b = 0 -> [ok |-> FALSE, text |-> <<"division by zero">>]
               [] c[2] = "/" /\ b # 0 /\ a % b = 0 ->
                      [ok |-> TRUE, text |-> JNum(a \div b) \o <<".", "0">>]
               [] OTHER -> [ok |-> TRUE, text |-> <<"float ">> \o c]
    ELSE [ok |-> FALSE, text |-> <<"invalid syntax">>]

\* tool_calc without its try/except: the exception leaves the function
NoCatch_tool_calc(expr) ==
    LET e == Sanitize(expr)
        v == CalcEval(e)
    IN  IF v.ok THEN e \o <<" = ">> \o v.text
        ELSE <<"raise">> \o v.text

tool_calc(expr) ==
    LET e == Sanitize(expr)
        v == CalcEval(e)
    IN  IF v.ok THEN e \o <<" = ">> \o v.text
        ELSE <<"Calc error: ">> \o v.text

\* the note tool_remember(text) appends at time t, and what it returns
RememberItem(text, t) == Note(Strip(text), t)
RememberReply(text) == <<"Saved: ", LDQUO>> \o Strip(text) \o <<RDQUO>>

RecallLine(h) == <<"- ">> \o h.text \o <<" (@">> \o h.ts \o <<")">>

\* the notes tool_recall selects for the stripped, lower-cased query q
RecallHits(q, notes) ==
    IF q # <<>>
    THEN SelectSeq(notes, LAMBDA n : Contains(Lower(n.text), q))
    ELSE LastN(notes, RecallLimit)

RECURSIVE RecallLines(_)
RecallLines(hs) ==
    IF Len(hs) = 1 THEN RecallLine(hs[1])
    ELSE RecallLine(hs[1]) \o <<NEWLINE>> \o RecallLines(Tail(hs))

\* what tool_recall returns for the selected notes
RecallText(hits) ==
    IF hits = <<>> THEN <<"No memory found.">>
    ELSE <<"Recent memory:", NEWLINE>> \o RecallLines(LastN(hits, RecallLimit))

tool_recall(query, notes) == RecallText(RecallHits(Lower(Strip(query)), notes))

Commands == {"calc", "remember", "recall"}

\* re.match(r"^/(calc|remember|recall)\s*(.*)$", message_text.strip(), flags=re.I):
\* the command word is one token of the message
Match(message_text) ==
    LET m == Strip(message_text) IN
    IF /\ Len(m) >= 2
       /\ m[1] = "/"
       /\ LowerAt(m, 2) \in Commands
       /\ \A i \in 3..Len(m) : m[i] # NEWLINE
    THEN [ok |-> TRUE, cmd |-> LowerAt(m, 2), arg |-> LStrip(SubSeq(m, 3, Len(m)))]
    ELSE [ok |-> FALSE, cmd |-> "", arg |-> <<>>]

-----------------------------------------------------------------------------
(* The response composer, agent.py:105-122 *)

Refusal == "I can't ignore my instructions, but happy to help."

ReplaceWord(c) ==
    CASE c = "hello" -> "greetings"
      [] c = "Hello" -> "Greetings"
      [] c = "goodbye" -> "farewell"
      [] OTHER -> c

ComposeRespCaseSensitive(user) ==
    IF Contains(user, <<"ignore previous">>) THEN <<Refusal>>
    ELSE [i \in 1..Len(user) |-> ReplaceWord(user[i])]

ComposeResp(user) ==
    IF Contains(Lower(user), <<"ignore previous">>) THEN <<Refusal>>
    ELSE [i \in 1..Len(user) |-> ReplaceWord(user[i])]

MemoryHintOldest(notes) ==
    LET recent == SubSeq(notes, 1, IF Len(notes) < HintLimit THEN Len(notes) ELSE HintLimit) IN
    IF notes # <<>>
    THEN <<" (FYI I remember: ">>
         \o Join(<<", ">>, [i \in 1..Len(recent) |-> recent[i].text]) \o <<")">>
    ELSE <<>>

MemoryHint(notes) ==
    LET recent == LastN(notes, HintLimit) IN
    IF notes # <<>>
    THEN <<" (FYI I remember: ">>
         \o Join(<<", ">>, [i \in 1..Len(recent) |-> recent[i].text]) \o <<")">>
    ELSE <<>>

Compose(user, notes) == <<"[nanda] ">> \o ComposeResp(user) \o MemoryHint(notes)

RateLimitText == <<"Rate limit exceeded. Try again in a minute.">>

-----------------------------------------------------------------------------
(* The state after the module is imported, agent.py:28-30 *)

\* no thread is inside ratelimit_ok()
ThreadIdle == [pc |-> "idle", now_bucket |-> 0, n |-> 0, ret |-> "none"]

Threads == 1..MaxThreads

RaceAtRest ==
    /\ threads = [t \in Threads |-> ThreadIdle]
    /\ serialized = TRUE

\* service.py:145-151, the SPX service as constructed
SvcInit ==
    /\ req_count = 0
    /\ svc_reqs = <<>>
    /\ svc_handled = 0
    /\ svc_health = [endpoint |-> "none", status |-> 0, requests |-> 0,
                     handled |-> 0, served |-> 0]

\* the counts of a process that loaded metrics.messages = n
Loaded(n) == [loaded |-> n, returned |-> 0, lost |-> 0]

NoSave == [stage |-> "none", caller |-> "none", doc |-> DefaultDoc(0), result |-> <<>>]

InitDocs ==
    { [notes |-> <<Note(<<"b", BSLASH>>, 0)>>, metrics |-> [messages |-> 1, start_ts |-> 0]] }

\* what may lie at MEM_PATH when the process starts
InitialDisks ==
    {NoFile, FileOf("garbage", TRUE, <<"not json">>)}
    \cup {FileOf("document", TRUE, Dump(d)) : d \in InitDocs}
    \cup {FileOf("truncated", TRUE, Truncated(Dump(d))) : d \in InitDocs}
    \cup {FileOf("document", FALSE, Dump(d)) : d \in InitDocs}

\* the module-level statements: mem = load_mem() and the fresh rate window
Startup(f, t) ==
    LET l == load_mem(f, t) IN
    /\ mem' = l.doc
    /\ pc' = IF l.raised THEN "CRASHED" ELSE "IDLE"
    /\ _last_bucket' = Bucket(t)
    /\ _msgs_in_bucket' = 0
    /\ rl_ret' = "none"
    /\ rl_calls' = 0
    /\ rl_clock' = t
    /\ rl_denied' = -1
    /\ sv' = NoSave
    /\ msg' = <<>>
    /\ tool_out' = None
    /\ outs' = <<>>
    /\ path' = <<>>
    /\ err' = "none"
    /\ fresh' = TRUE
    /\ loadsrc' = FoundAt(f)
    /\ tally' = Loaded(l.doc.metrics.messages)

Init ==
    /\ clock = 0
    /\ disk \in InitialDisks
    /\ tmpf = NoFile
    /\ mem = load_mem(disk, 0).doc
    /\ pc = IF load_mem(disk, 0).raised THEN "CRASHED" ELSE "IDLE"
    /\ _last_bucket = Bucket(0)
    /\ _msgs_in_bucket = 0
    /\ rl_ret = "none"
    /\ rl_calls = 0
    /\ rl_clock = 0
    /\ rl_denied = -1
    /\ sv = NoSave
    /\ msg = <<>>
    /\ tool_out = None
    /\ outs = <<>>
    /\ path = <<>>
    /\ err = "none"
    /\ saved = [some |-> FALSE, doc |-> DefaultDoc(0)]
    /\ fresh = TRUE
    /\ loadsrc = FoundAt(disk)
    /\ faults = 0
    /\ restarts = 0
    /\ fx = <<>>
    /\ fq = <<>>
    /\ fres = <<>>
    /\ tally = Loaded(mem.metrics.messages)
    /\ RaceAtRest
    /\ SvcInit

\* the process is killed at any point and started again
Restart ==
    /\ restarts < MaxRestarts
    /\ restarts' = restarts + 1
    /\ Startup(disk, clock)
    /\ UNCHANGED <<clock, disk, tmpf, saved, faults, pairVars, raceVars, svcVars>>

-----------------------------------------------------------------------------
(* save_mem(mem), agent.py:22-26, in the steps a reader of the files can tell *)
(* apart                                                                    *)

Terminal == {"DENIED", "DONE", "RAISED"}

\* control returns to the caller of save_mem(): tool_remember returns its
\* reply to try_tools, improve returns its result
AfterSave ==
    IF sv.caller = "remember"
    THEN /\ tool_out' = Str(sv.result)
         /\ pc' = "TOOL_RESULT"
         /\ path' = Append(path, "TOOL_RESULT")
         /\ outs' = outs
         /\ tally' = tally
    ELSE /\ outs' = Append(outs, sv.result)
         /\ pc' = "DONE"
         /\ path' = Append(path, "DONE")
         /\ tool_out' = tool_out
         /\ tally' = [tally EXCEPT !.returned = @ + 1]

\* an exception of save_mem() leaves tool_remember, try_tools and improve:
\* none of them catches it
SwallowRaise ==
    /\ AfterSave
    /\ sv' = NoSave

Raise ==
    /\ pc' = "RAISED"
    /\ path' = Append(path, "RAISED")
    /\ sv' = NoSave
    /\ tally' = IF sv.caller = "improve" THEN [tally EXCEPT !.lost = @ + 1] ELSE tally
    /\ UNCHANGED <<tool_out, outs>>

\* the call save_mem(mem) made by `caller`, which will return `result`
BeginSave(caller, result, d) ==
    sv' = [stage |-> "open", caller |-> caller, doc |-> d, result |-> result]

\* open(tmp, "w") and the first part of json.dump
SaveOpenInPlace ==
    /\ sv.stage = "open"
    /\ disk' = FileOf("truncated", TRUE, Truncated(Dump(sv.doc)))
    /\ sv' = [sv EXCEPT !.stage = "write"]
    /\ UNCHANGED <<clock, rateVars, mem, tmpf, saved, fresh, loadsrc, faults,
                   msgVars, restarts, pairVars, raceVars, svcVars, tally>>

SaveOpen ==
    /\ sv.stage = "open"
    /\ tmpf' = FileOf("truncated", TRUE, Truncated(Dump(sv.doc)))
    /\ sv' = [sv EXCEPT !.stage = "write"]
    /\ UNCHANGED <<clock, rateVars, mem, disk, saved, fresh, loadsrc, faults,
                   msgVars, restarts, pairVars, raceVars, svcVars, tally>>

\* the rest of json.dump, and the file is closed
SaveWrite ==
    /\ sv.stage = "write"
    /\ tmpf' = FileOf("document", TRUE, Dump(sv.doc))
    /\ sv' = [sv EXCEPT !.stage = "replace"]
    /\ UNCHANGED <<clock, rateVars, mem, disk, saved, fresh, loadsrc, faults,
                   msgVars, restarts, pairVars, raceVars, svcVars, tally>>

\* os.replace(tmp, MEM_PATH), and save_mem returns
SaveReplaceSkipped ==
    /\ sv.stage = "replace"
    /\ AfterSave
    /\ sv' = NoSave
    /\ UNCHANGED <<clock, rateVars, mem, disk, tmpf, saved, fresh, loadsrc, faults,
                   msg, err, restarts, pairVars, raceVars, svcVars>>

SaveReplace ==
    /\ sv.stage = "replace"
    /\ disk' = tmpf
    /\ tmpf' = NoFile
    /\ saved' = [some |-> TRUE, doc |-> sv.doc]
    /\ AfterSave
    /\ sv' = NoSave
    /\ UNCHANGED <<clock, rateVars, mem, fresh, loadsrc, faults, msg, err,
                   restarts, pairVars, raceVars, svcVars>>

\* open, write or os.replace raises OSError: the files stay as they are
SaveFails ==
    /\ sv.stage # "none"
    /\ faults < MaxFaults
    /\ faults' = faults + 1
    /\ err' = sv.caller
    /\ Raise
    /\ UNCHANGED <<clock, rateVars, mem, disk, tmpf, saved, fresh, loadsrc,
                   msg, restarts, pairVars, raceVars, svcVars>>

-----------------------------------------------------------------------------
(* improve(message_text), agent.py:92-122 *)

Messages ==
    { <<"/", "remember", SPACE, "a", QUOTE>>,
      <<"/", "RECALL", SPACE, "A">>,
      <<"hello", SPACE, "b">> }

BurstMessages ==
    { <<"/", "remember", SPACE, "a", QUOTE>>,
      <<"/", "calc", SPACE, "1", "/", "0">>,
      <<"hello", SPACE, "b">> }

\* the framework calls improve(m)
Receive(m, cap) ==
    /\ pc \in Terminal \cup {"IDLE"}
    /\ mem.metrics.messages < cap
    /\ rl_calls < MaxCalls
    /\ Match(m).ok /\ Match(m).cmd = "remember" => Len(mem.notes) < MaxNotes
    /\ pc' = "RATE_CHECK"
    /\ msg' = m
    /\ tool_out' = None
    /\ outs' = <<>>
    /\ path' = <<"RATE_CHECK">>
    /\ err' = "none"
    /\ UNCHANGED <<clock, rateVars, storeVars, restarts, pairVars, raceVars, svcVars, tally>>

\* agent.py:94-95
RateCheckNoReturn ==
    /\ pc = "RATE_CHECK"
    /\ RatelimitCall
    /\ pc' = "DISPATCH"
    /\ outs' = IF rl_ret' = "deny" THEN Append(outs, RateLimitText) ELSE outs
    /\ path' = Append(path, "DISPATCH")
    /\ UNCHANGED <<clock, storeVars, msg, tool_out, err, restarts, pairVars, raceVars, svcVars, tally>>

\* a denial that still counts the message
RateCheckCountsDenied ==
    /\ pc = "RATE_CHECK"
    /\ RatelimitCall
    /\ IF rl_ret' = "deny"
       THEN /\ pc' = "DENIED"
            /\ outs' = Append(outs, RateLimitText)
            /\ path' = Append(path, "DENIED")
            /\ mem' = [mem EXCEPT !.metrics.messages = @ + 1]
       ELSE /\ pc' = "DISPATCH"
            /\ outs' = outs
            /\ path' = Append(path, "DISPATCH")
            /\ mem' = mem
    /\ UNCHANGED <<clock, disk, tmpf, sv, saved, fresh, loadsrc, faults, msg,
                   tool_out, err, restarts, pairVars, raceVars, svcVars, tally>>

RateCheck ==
    /\ pc = "RATE_CHECK"
    /\ RatelimitCall
    /\ IF rl_ret' = "deny"
       THEN /\ pc' = "DENIED"
            /\ outs' = Append(outs, RateLimitText)
            /\ path' = Append(path, "DENIED")
       ELSE /\ pc' = "DISPATCH"
            /\ outs' = outs
            /\ path' = Append(path, "DISPATCH")
    /\ UNCHANGED <<clock, storeVars, msg, tool_out, err, restarts, pairVars, raceVars, svcVars, tally>>

\* agent.py:98, try_tools finds no command
DispatchNone ==
    /\ pc = "DISPATCH"
    /\ sv.stage = "none"
    /\ \E m \in {Match(msg)} : ~m.ok
    /\ tool_out' = None
    /\ pc' = "FALLTHROUGH"
    /\ path' = Append(path, "FALLTHROUGH")
    /\ UNCHANGED <<clock, rateVars, storeVars, msg, outs, err, restarts, pairVars, raceVars, svcVars, tally>>

\* agent.py:98, try_tools runs tool_calc or tool_recall
DispatchPure ==
    /\ pc = "DISPATCH"
    /\ sv.stage = "none"
    /\ \E m \in {Match(msg)} :
          /\ m.ok
          /\ m.cmd \in {"calc", "recall"}
          /\ tool_out' = IF m.cmd = "calc"
                         THEN Str(tool_calc(m.arg))
                         ELSE Str(tool_recall(m.arg, mem.notes))
    /\ pc' = "TOOL_RESULT"
    /\ path' = Append(path, "TOOL_RESULT")
    /\ UNCHANGED <<clock, rateVars, storeVars, msg, outs, err, restarts, pairVars, raceVars, svcVars, tally>>

\* agent.py:98, try_tools runs tool_remember up to its call of save_mem
DispatchRememberFront ==
    /\ pc = "DISPATCH"
    /\ sv.stage = "none"
    /\ \E m \in {Match(msg)} :
          /\ m.ok
          /\ m.cmd = "remember"
          /\ mem' = [mem EXCEPT !.notes = <<RememberItem(m.arg, clock)>> \o @]
          /\ fresh' = FALSE
          /\ BeginSave("remember", RememberReply(m.arg), mem')
    /\ UNCHANGED <<clock, rateVars, disk, tmpf, saved, loadsrc, faults,
                   msgVars, restarts, pairVars, raceVars, svcVars, tally>>

DispatchRemember ==
    /\ pc = "DISPATCH"
    /\ sv.stage = "none"
    /\ \E m \in {Match(msg)} :
          /\ m.ok
          /\ m.cmd = "remember"
          /\ mem' = [mem EXCEPT !.notes = Append(@, RememberItem(m.arg, clock))]
          /\ fresh' = FALSE
          /\ BeginSave("remember", RememberReply(m.arg), mem')
    /\ UNCHANGED <<clock, rateVars, disk, tmpf, saved, loadsrc, faults,
                   msgVars, restarts, pairVars, raceVars, svcVars, tally>>

\* agent.py:99-101, up to the call of save_mem
MetricsUpdate ==
    /\ pc = "TOOL_RESULT"
    /\ mem' = [mem EXCEPT !.metrics.messages = @ + 1]
    /\ fresh' = FALSE
    /\ BeginSave("improve", tool_out.text, mem')
    /\ pc' = "METRICS_UPDATE"
    /\ path' = Append(path, "METRICS_UPDATE")
    /\ UNCHANGED <<clock, rateVars, disk, tmpf, saved, loadsrc, faults,
                   msg, tool_out, outs, err, restarts, pairVars, raceVars, svcVars, tally>>

\* agent.py:105-121, up to the call of save_mem
ComposeStepNoCount ==
    /\ pc = "FALLTHROUGH"
    /\ mem' = mem
    /\ fresh' = FALSE
    /\ BeginSave("improve", Compose(msg, mem.notes), mem')
    /\ pc' = "COMPOSE"
    /\ path' = Append(path, "COMPOSE")
    /\ UNCHANGED <<clock, rateVars, disk, tmpf, saved, loadsrc, faults,
                   msg, tool_out, outs, err, restarts, pairVars, raceVars, svcVars, tally>>

ComposeStep ==
    /\ pc = "FALLTHROUGH"
    /\ mem' = [mem EXCEPT !.metrics.messages = @ + 1]
    /\ fresh' = FALSE
    /\ BeginSave("improve", Compose(msg, mem.notes), mem')
    /\ pc' = "COMPOSE"
    /\ path' = Append(path, "COMPOSE")
    /\ UNCHANGED <<clock, rateVars, disk, tmpf, saved, loadsrc, faults,
                   msg, tool_out, outs, err, restarts, pairVars, raceVars, svcVars, tally>>

\* the steps of one improve() call
ImproveStep ==
    \/ RateCheck
    \/ DispatchNone
    \/ DispatchPure
    \/ DispatchRemember
    \/ MetricsUpdate
    \/ ComposeStep
    \/ SaveOpen
    \/ SaveWrite
    \/ SaveReplace

AgentTick == TickWithin(MaxAgentTicks)

Next ==
    \/ AgentTick
    \/ Restart
    \/ \E m \in Messages : Receive(m, MaxMessages)
    \/ ImproveStep
    \/ SaveFails

Spec == Init /\ [][Next]_vars

\* a burst of messages within one minute of one process
NextBurst ==
    \/ \E m \in BurstMessages : Receive(m, MaxBurst)
    \/ ImproveStep
    \/ SaveFails

SpecBurst == Init /\ [][NextBurst]_vars

-----------------------------------------------------------------------------
(* The rate limiter alone: calls of ratelimit_ok() and clock advances *)

Tick == TickWithin(MaxTicks)

RateCall ==
    /\ RatelimitCall
    /\ UNCHANGED <<clock, storeVars, msgVars, restarts, pairVars, raceVars, svcVars, tally>>

NextRate == Tick \/ RateCall

SpecRate == Init /\ [][NextRate]_vars

SpecRateFair == SpecRate /\ WF_vars(Tick) /\ WF_vars(RateCall)

-----------------------------------------------------------------------------
(* tool_remember(x) followed by tool_recall(q), on their own *)

Alphabet == {"a", "A", SPACE, CAP_SIGMA}

Texts == UNION {[1..k -> Alphabet] : k \in 1..MaxLen}

\* x and the substrings of x, the empty one included
SubTexts(x) == {SubSeq(x, i, j) : i \in 1..(Len(x) + 1), j \in 0..Len(x)}

PriorNotes ==
    { <<>>,
      <<Note(<<"b">>, 0)>>,
      [i \in 1..RecallLimit |-> Note(<<"a">>, 0)] }

InitPair ==
    /\ clock = 0
    /\ \E ns \in PriorNotes :
          disk = FileOf("document", TRUE,
                        Dump([notes |-> ns, metrics |-> [messages |-> Len(ns), start_ts |-> 0]]))
    /\ tmpf = NoFile
    /\ mem = load_mem(disk, 0).doc
    /\ pc = "IDLE"
    /\ _last_bucket = Bucket(0)
    /\ _msgs_in_bucket = 0
    /\ rl_ret = "none"
    /\ rl_calls = 0
    /\ rl_clock = 0
    /\ rl_denied = -1
    /\ sv = NoSave
    /\ msg = <<>>
    /\ tool_out = None
    /\ outs = <<>>
    /\ path = <<>>
    /\ err = "none"
    /\ saved = [some |-> FALSE, doc |-> DefaultDoc(0)]
    /\ fresh = TRUE
    /\ loadsrc = FoundAt(disk)
    /\ faults = 0
    /\ restarts = 0
    /\ fx \in Texts
    /\ fq \in SubTexts(fx)
    /\ fres = <<>>
    /\ tally = Loaded(mem.metrics.messages)
    /\ RaceAtRest
    /\ SvcInit

\* tool_remember(fx), its save_mem included
PairRemember ==
    /\ pc = "IDLE"
    /\ mem' = [mem EXCEPT !.notes = Append(@, RememberItem(fx, clock))]
    /\ disk' = FileOf("document", TRUE, Dump(mem'))
    /\ tmpf' = NoFile
    /\ saved' = [some |-> TRUE, doc |-> mem']
    /\ fresh' = FALSE
    /\ tool_out' = Str(RememberReply(fx))
    /\ pc' = "REMEMBERED"
    /\ UNCHANGED <<clock, rateVars, sv, loadsrc, faults, msg, outs, path, err,
                   restarts, pairVars, raceVars, svcVars, tally>>

\* tool_recall(fq)
PairRecall ==
    /\ pc = "REMEMBERED"
    /\ fres' = tool_recall(fq, mem.notes)
    /\ pc' = "RECALLED"
    /\ UNCHANGED <<clock, rateVars, storeVars, msg, tool_out, outs, path, err,
                   restarts, fx, fq, raceVars, svcVars, tally>>

NextPair == PairRemember \/ PairRecall

SpecPair == InitPair /\ [][NextPair]_vars

-----------------------------------------------------------------------------
(* ratelimit_ok() called by concurrent threads, agent.py:32-41, statement by *)
(* statement; `_msgs_in_bucket += 1` is a load and a store                   *)

\* the counter values the threads find: the last calls of a full window
PriorCalls == (RATE_LIMIT_PER_MIN - MaxThreads)..RATE_LIMIT_PER_MIN

InitRace ==
    /\ clock = 0
    /\ disk = NoFile
    /\ tmpf = NoFile
    /\ mem = load_mem(disk, 0).doc
    /\ pc = "IDLE"
    /\ _last_bucket = Bucket(0)
    /\ _msgs_in_bucket \in PriorCalls
    /\ rl_ret = "admit"
    /\ rl_calls = _msgs_in_bucket
    /\ rl_clock = 0
    /\ rl_denied = -1
    /\ sv = NoSave
    /\ msg = <<>>
    /\ tool_out = None
    /\ outs = <<>>
    /\ path = <<>>
    /\ err = "none"
    /\ saved = [some |-> FALSE, doc |-> DefaultDoc(0)]
    /\ fresh = TRUE
    /\ loadsrc = FoundAt(disk)
    /\ faults = 0
    /\ restarts = 0
    /\ fx = <<>>
    /\ fq = <<>>
    /\ fres = <<>>
    /\ tally = Loaded(mem.metrics.messages)
    /\ threads = [t \in Threads |-> ThreadIdle]
    /\ serialized \in BOOLEAN
    /\ SvcInit

RaceFrame ==
    UNCHANGED <<clock, rl_ret, rl_calls, rl_clock, rl_denied, storeVars, msgVars,
               restarts, pairVars, serialized, svcVars, tally>>

\* thread t calls ratelimit_ok(); a serializing caller lets it in only when
\* no other call is running
ThreadEnterUnguarded(t) ==
    /\ threads[t].pc = "idle"
    /\ threads' = [threads EXCEPT ![t].pc = "line34"]
    /\ UNCHANGED <<_last_bucket, _msgs_in_bucket>>
    /\ RaceFrame

ThreadEnter(t) ==
    /\ threads[t].pc = "idle"
    /\ serialized => \A u \in Threads : threads[u].pc \in {"idle", "done"}
    /\ threads' = [threads EXCEPT ![t].pc = "line34"]
    /\ UNCHANGED <<_last_bucket, _msgs_in_bucket>>
    /\ RaceFrame

\* agent.py:34
ThreadNowBucket(t) ==
    /\ threads[t].pc = "line34"
    /\ threads' = [threads EXCEPT ![t].pc = "line35", ![t].now_bucket = Bucket(clock)]
    /\ UNCHANGED <<_last_bucket, _msgs_in_bucket>>
    /\ RaceFrame

\* agent.py:35
ThreadCompare(t) ==
    /\ threads[t].pc = "line35"
    /\ threads' = [threads EXCEPT ![t].pc =
                      IF threads[t].now_bucket # _last_bucket THEN "line36" ELSE "line38"]
    /\ UNCHANGED <<_last_bucket, _msgs_in_bucket>>
    /\ RaceFrame

\* agent.py:36
ThreadSetBucket(t) ==
    /\ threads[t].pc = "line36"
    /\ _last_bucket' = threads[t].now_bucket
    /\ threads' = [threads EXCEPT ![t].pc = "line37"]
    /\ UNCHANGED _msgs_in_bucket
    /\ RaceFrame

\* agent.py:37
ThreadResetCount(t) ==
    /\ threads[t].pc = "line37"
    /\ _msgs_in_bucket' = 0
    /\ threads' = [threads EXCEPT ![t].pc = "line38"]
    /\ UNCHANGED _last_bucket
    /\ RaceFrame

\* agent.py:38-39
ThreadCheck(t) ==
    /\ threads[t].pc = "line38"
    /\ threads' = IF _msgs_in_bucket >= RATE_LIMIT_PER_MIN
                  THEN [threads EXCEPT ![t].pc = "done", ![t].ret = "deny"]
                  ELSE [threads EXCEPT ![t].pc = "line40"]
    /\ UNCHANGED <<_last_bucket, _msgs_in_bucket>>
    /\ RaceFrame

\* agent.py:40, the load of `_msgs_in_bucket += 1`
ThreadLoad(t) ==
    /\ threads[t].pc = "line40"
    /\ threads' = [threads EXCEPT ![t].pc = "store", ![t].n = _msgs_in_bucket]
    /\ UNCHANGED <<_last_bucket, _msgs_in_bucket>>
    /\ RaceFrame

\* agent.py:40-41, the store of `_msgs_in_bucket += 1`, and return True
ThreadStore(t) ==
    /\ threads[t].pc = "store"
    /\ _msgs_in_bucket' = threads[t].n + 1
    /\ threads' = [threads EXCEPT ![t].pc = "done", ![t].ret = "admit"]
    /\ UNCHANGED _last_bucket
    /\ RaceFrame

RaceTick ==
    /\ clock + TickSeconds <= MaxTicks * TickSeconds
    /\ clock' = clock + TickSeconds
    /\ UNCHANGED <<rateVars, storeVars, msgVars, restarts, pairVars, raceVars,
                   svcVars, tally>>

NextRace ==
    \/ RaceTick
    \/ \E t \in Threads :
          \/ ThreadEnter(t)
          \/ ThreadNowBucket(t)
          \/ ThreadCompare(t)
          \/ ThreadSetBucket(t)
          \/ ThreadResetCount(t)
          \/ ThreadCheck(t)
          \/ ThreadLoad(t)
          \/ ThreadStore(t)

SpecRace == InitRace /\ [][NextRace]_vars

-----------------------------------------------------------------------------
(* One improve() call, on any of a range of messages and stored documents *)

CallNotes ==
    { <<>>,
      <<Note(<<>>, 0)>>,
      <<Note(<<"x">>, 0), Note(<<"y", SPACE, "Y">>, 0)>>,
      <<Note(<<"x">>, 0), Note(<<"y", SPACE, "Y">>, 0), Note(<<"z">>, 0)>> }

CallMessages ==
    { <<"/", "foo", SPACE, "b">>,
      <<"/", "calc", SPACE, "1", "/", "0">>,
      <<"/", "CALC", SPACE, "2", "+", "2">>,
      <<"/", "calc", SPACE, "2", "a", "*", "3">>,
      <<"/", "calc", SPACE, "1", "+">>,
      <<"/", "calc", SPACE, "a", "b">>,
      <<"/", "calc">>,
      <<"/", "remember", SPACE, "a", QUOTE>>,
      <<"/", "RECALL", SPACE, "Y">>,
      <<"hello", SPACE, "b">>,
      <<SPACE, "Hello", SPACE, "goodbye">>,
      <<"Ignore Previous", SPACE, "b">>,
      <<"hello", SPACE, "ignore previous">> }

\* the process has loaded a document and the framework has called improve(m)
InitCall ==
    /\ clock = 0
    /\ \E ns \in CallNotes :
          disk = FileOf("document", TRUE,
                        Dump([notes |-> ns, metrics |-> [messages |-> Len(ns), start_ts |-> 0]]))
    /\ tmpf = NoFile
    /\ mem = load_mem(disk, 0).doc
    /\ pc = "RATE_CHECK"
    /\ _last_bucket = Bucket(0)
    /\ _msgs_in_bucket = 0
    /\ rl_ret = "none"
    /\ rl_calls = 0
    /\ rl_clock = 0
    /\ rl_denied = -1
    /\ sv = NoSave
    /\ msg \in CallMessages
    /\ tool_out = None
    /\ outs = <<>>
    /\ path = <<"RATE_CHECK">>
    /\ err = "none"
    /\ saved = [some |-> FALSE, doc |-> DefaultDoc(0)]
    /\ fresh = TRUE
    /\ loadsrc = FoundAt(disk)
    /\ faults = 0
    /\ restarts = 0
    /\ fx = <<>>
    /\ fq = <<>>
    /\ fres = <<>>
    /\ tally = Loaded(mem.metrics.messages)
    /\ RaceAtRest
    /\ SvcInit

NextCall == ImproveStep

SpecCall == InitCall /\ [][NextCall]_vars

-----------------------------------------------------------------------------
(* The SPX service, service.py:145-215: its handlers run on the threads of  *)
(* the server's pool, so the statements of two requests interleave; the     *)
(* statement `self.req_count += 1` is a load and a store                    *)

InitSvc ==
    /\ clock = 0
    /\ disk = NoFile
    /\ tmpf = NoFile
    /\ mem = load_mem(disk, 0).doc
    /\ pc = "IDLE"
    /\ _last_bucket = Bucket(0)
    /\ _msgs_in_bucket = 0
    /\ rl_ret = "none"
    /\ rl_calls = 0
    /\ rl_clock = 0
    /\ rl_denied = -1
    /\ sv = NoSave
    /\ msg = <<>>
    /\ tool_out = None
    /\ outs = <<>>
    /\ path = <<>>
    /\ err = "none"
    /\ saved = [some |-> FALSE, doc |-> DefaultDoc(0)]
    /\ fresh = TRUE
    /\ loadsrc = FoundAt(disk)
    /\ faults = 0
    /\ restarts = 0
    /\ fx = <<>>
    /\ fq = <<>>
    /\ fres = <<>>
    /\ tally = Loaded(mem.metrics.messages)
    /\ RaceAtRest
    /\ SvcInit

SvcFrame ==
    UNCHANGED <<clock, rateVars, storeVars, msgVars, restarts, pairVars, raceVars, tally>>

\* requests received so far, on all endpoints
Received == Len(svc_reqs) + svc_health.served

\* a GET /svc/summary arrives and a pool thread takes it
SummaryArrives ==
    /\ Received < MaxRequests
    /\ svc_reqs' = Append(svc_reqs, [pc |-> "load", reg |-> 0, status |-> 0])
    /\ UNCHANGED <<req_count, svc_handled, svc_health>>
    /\ SvcFrame

\* service.py:168, the load of `self.req_count += 1`
SummaryLoad(i) ==
    /\ svc_reqs[i].pc = "load"
    /\ svc_reqs' = [svc_reqs EXCEPT ![i].pc = "store", ![i].reg = req_count]
    /\ UNCHANGED <<req_count, svc_handled, svc_health>>
    /\ SvcFrame

\* service.py:168, the store of `self.req_count += 1`
SummaryStore(i) ==
    /\ svc_reqs[i].pc = "store"
    /\ req_count' = svc_reqs[i].reg + 1
    /\ svc_handled' = svc_handled + 1
    /\ svc_reqs' = [svc_reqs EXCEPT ![i].pc = "fetch"]
    /\ UNCHANGED svc_health
    /\ SvcFrame

\* service.py:169-175: the snapshot is returned, or the fetch fails with 502
SummaryRespond(i) ==
    /\ svc_reqs[i].pc = "fetch"
    /\ \E st \in {200, 502} :
          svc_reqs' = [svc_reqs EXCEPT ![i].pc = "done", ![i].status = st]
    /\ UNCHANGED <<req_count, svc_handled, svc_health>>
    /\ SvcFrame

\* service.py:155-164
Healthz ==
    /\ Received < MaxRequests
    /\ svc_health' = [endpoint |-> "healthz", status |-> 200, requests |-> req_count,
                      handled |-> svc_handled, served |-> svc_health.served + 1]
    /\ UNCHANGED <<req_count, svc_reqs, svc_handled>>
    /\ SvcFrame

\* service.py:177-192
Catalog ==
    /\ Received < MaxRequests
    /\ svc_health' = [svc_health EXCEPT !.endpoint = "catalog", !.status = 200,
                                        !.served = @ + 1]
    /\ UNCHANGED <<req_count, svc_reqs, svc_handled>>
    /\ SvcFrame

\* service.py:194-215: 400 without the two URLs, 502 when the registry fails
Announce ==
    /\ Received < MaxRequests
    /\ \E st \in {200, 400, 502} :
          svc_health' = [svc_health EXCEPT !.endpoint = "announce", !.status = st,
                                            !.served = @ + 1]
    /\ UNCHANGED <<req_count, svc_reqs, svc_handled>>
    /\ SvcFrame

NextSvc ==
    \/ SummaryArrives
    \/ \E i \in 1..Len(svc_reqs) :
          \/ SummaryLoad(i)
          \/ SummaryStore(i)
          \/ SummaryRespond(i)
    \/ Healthz
    \/ Catalog
    \/ Announce

SpecSvc == InitSvc /\ [][NextSvc]_vars

-----------------------------------------------------------------------------
(* The claims *)

\* C1: within one wall-clock bucket, counted from the fresh window, the calls
\* of ratelimit_ok() numbered 1 to 60 return True and the 61st and every
\* later one return False.
C1_FirstSixtyAdmitted ==
    rl_ret # "none" => (rl_ret = "admit" <=> rl_calls <= RATE_LIMIT_PER_MIN)

C1_Witness == rl_ret = "deny" /\ rl_calls = RATE_LIMIT_PER_MIN + 1

\* C2: after any calls of ratelimit_ok() and clock advances the counter
\* _msgs_in_bucket lies between 0 and RATE_LIMIT_PER_MIN.
C2_CounterWithinLimit ==
    _msgs_in_bucket >= 0 /\ _msgs_in_bucket <= RATE_LIMIT_PER_MIN

C2_Witness ==
    /\ rl_ret = "deny"
    /\ _msgs_in_bucket = RATE_LIMIT_PER_MIN
    /\ rl_calls > RATE_LIMIT_PER_MIN + 1

\* C3: the first call of ratelimit_ok() made once the wall-clock bucket
\* differs from the bucket of a denial resets the counter, returns True and
\* leaves the counter at 1; and while the clock can still reach a later
\* bucket, a denial is followed by an admission.
C3_DenialRecovers ==
    /\ [][ (/\ rl_ret = "deny"
            /\ rl_calls' # rl_calls
            /\ Bucket(clock) # rl_denied)
           => (rl_ret' = "admit" /\ _msgs_in_bucket' = 1) ]_vars
    /\ (rl_ret = "deny" /\ Bucket(clock) < Bucket(MaxTicks * TickSeconds))
          ~> (rl_ret = "admit")

C3_Witness ==
    /\ rl_denied >= 0
    /\ Bucket(rl_clock) # rl_denied
    /\ rl_ret = "admit"
    /\ rl_calls = 1
    /\ _msgs_in_bucket = 1

IsPrefix(p, q) == Len(p) <= Len(q) /\ SubSeq(q, 1, Len(p)) = p

ClaimPaths ==
    { <<"RATE_CHECK", "DENIED">>,
      <<"RATE_CHECK", "DISPATCH", "TOOL_RESULT", "METRICS_UPDATE", "DONE">>,
      <<"RATE_CHECK", "DISPATCH", "FALLTHROUGH", "COMPOSE", "DONE">> }

RaisedPaths ==
    { <<"RATE_CHECK", "DISPATCH", "RAISED">>,
      <<"RATE_CHECK", "DISPATCH", "TOOL_RESULT", "METRICS_UPDATE", "RAISED">>,
      <<"RATE_CHECK", "DISPATCH", "FALLTHROUGH", "COMPOSE", "RAISED">> }

InProgress == pc \notin Terminal \cup {"IDLE", "CRASHED"}

\* C4 as claimed: improve() goes through the states of one of the three
\* paths, can always take its next step until it is in DENIED or DONE, and
\* every call that has ended has yielded exactly one output string, a call
\* ended by a failed storage write included.
C4_OneOutputAlways ==
    /\ \E q \in ClaimPaths : IsPrefix(path, q)
    /\ InProgress => (outs = <<>> /\ ENABLED ImproveStep)
    /\ pc \in Terminal => (path \in ClaimPaths /\ Len(outs) = 1)

\* C4: improve() goes through the states of one of the three paths, each
\* once, and can always take its next step until it ends; it ends in DENIED
\* or DONE having yielded exactly one output string, or, when a storage write
\* fails, by raising that error from DISPATCH, METRICS_UPDATE or COMPOSE
\* having yielded none.
C4_OneOutputUnlessWriteFails ==
    /\ \E q \in ClaimPaths \cup RaisedPaths : IsPrefix(path, q)
    /\ path # <<>> => pc = path[Len(path)]
    /\ InProgress => (outs = <<>> /\ ENABLED ImproveStep)
    /\ pc \in {"DENIED", "DONE"} => (path \in ClaimPaths /\ Len(outs) = 1)
    /\ pc = "RAISED" => (path \in RaisedPaths /\ outs = <<>> /\ err # "none")

C4_Witness ==
    /\ pc = "RAISED"
    /\ err = "improve"
    /\ outs = <<>>
    /\ path = <<"RATE_CHECK", "DISPATCH", "FALLTHROUGH", "COMPOSE", "RAISED">>

\* C5: when improve() has returned the output of an admitted message, the
\* file at MEM_PATH is readable and parses to a document equal to mem.
C5_ReturnedMeansFlushed ==
    pc = "DONE" =>
        /\ disk.exists
        /\ disk.readable
        /\ JsonLoad(disk.data).ok
        /\ JsonLoad(disk.data).val = mem

C5_Witness ==
    /\ pc = "DONE"
    /\ Match(msg).cmd = "remember"
    /\ Len(mem.notes) = 2
    /\ mem.metrics.messages = 2

\* C6: when save_mem fails inside tool_remember, improve() ends by raising:
\* tool_remember has returned no reply, no output is yielded, and the note it
\* appended is still the last one of mem["notes"].
C6_RememberFailurePropagates ==
    err = "remember" =>
        /\ pc = "RAISED"
        /\ tool_out = None
        /\ outs = <<>>
        /\ mem.notes # <<>>
        /\ mem.notes[Len(mem.notes)].text = Strip(Match(msg).arg)

C6_Witness ==
    /\ err = "remember"
    /\ pc = "RAISED"
    /\ tmpf.exists
    /\ ~JsonLoad(tmpf.data).ok

\* C7: every step that changes the file at MEM_PATH leaves there, readable,
\* the complete serialization of the document passed to the running save_mem
\* call: a reader never finds part of one.
C7_ReplaceIsAtomic ==
    [][ disk' # disk =>
          /\ sv.stage = "replace"
          /\ disk'.exists
          /\ disk'.readable
          /\ disk'.data = Dump(sv.doc)
          /\ JsonLoad(disk'.data).ok
          /\ JsonLoad(disk'.data).val = sv.doc ]_vars

C7_Witness ==
    /\ pc = "RAISED"
    /\ saved.some
    /\ tmpf.exists
    /\ tmpf.data = Truncated(Dump(mem))
    /\ disk.data = Dump(saved.doc)
    /\ saved.doc # mem

\* C8: load_mem() raises nothing; when the file at MEM_PATH is missing,
\* unreadable or unparsable it returns a document with no notes and message
\* count 0, and otherwise the document the file holds.
C8_LoadAbsorbsFailures ==
    fresh =>
        /\ pc # "CRASHED"
        /\ loadsrc \in {"missing", "unreadable", "unparsable"} =>
              (mem.notes = <<>> /\ mem.metrics.messages = 0)
        /\ loadsrc = "document" => disk.data = Dump(mem)

C8_Witness ==
    /\ fresh
    /\ restarts > 0
    /\ loadsrc = "unparsable"
    /\ mem = DefaultDoc(clock)
    /\ clock > 0

\* C9: a load_mem() that follows a save_mem(d) which replaced the file
\* returns a document equal to d.
C9_SaveLoadRoundTrip ==
    (fresh /\ saved.some) => mem = saved.doc

C9_Witness ==
    /\ fresh
    /\ saved.some
    /\ Len(mem.notes) = 2
    /\ mem.notes[2].text = <<"a", QUOTE>>
    /\ mem.notes[1].text = <<"b", BSLASH>>

\* C10: after tool_remember(x) with a non-empty x, the result of
\* tool_recall(q), for q = x or any substring of x, contains the remembered
\* (stripped) text.
C10_RecallIncludesRemembered ==
    pc = "RECALLED" => Contains(fres, Strip(fx))

\* a text with its letter case put aside: both lower-case sigmas are the
\* capital sigma's
Fold(c) ==
    CASE c = "A" -> "a"
      [] c = "B" -> "b"
      [] c \in {CAP_SIGMA, FINAL_SIGMA} -> SIGMA
      [] OTHER -> c

FoldText(s) == [i \in 1..Len(s) |-> Fold(s[i])]

ContainsIgnoringCase(text, q) == Contains(FoldText(text), FoldText(q))

\* the notes a recall of q is to show: the last RecallLimit of all notes for
\* the empty query, of the notes containing q for any other
ToShow(q, notes) ==
    LastN(IF q = <<>> THEN notes
          ELSE SelectSeq(notes, LAMBDA n : ContainsIgnoringCase(n.text, q)),
          RecallLimit)

\* C11: tool_recall(q) returns "No memory found." when no note is to be
\* shown; otherwise it lists, after its header line, at most 5 notes in the
\* order they were stored: the last 5 notes for the empty (stripped) query,
\* the last 5 of the notes whose text contains the query whatever the letter
\* case for any other.
C11_RecallLastFiveMatching ==
    pc = "RECALLED" =>
        LET shown == ToShow(Strip(fq), mem.notes) IN
        /\ Len(shown) <= RecallLimit
        /\ fres = IF shown = <<>> THEN <<"No memory found.">>
                  ELSE <<"Recent memory:", NEWLINE>>
                       \o Join(<<NEWLINE>>, [i \in 1..Len(shown) |-> RecallLine(shown[i])])

\* C12: within one process the notes only grow at their end: every step
\* leaves the earlier notes as a prefix of the later ones, the notes change
\* only where try_tools runs tool_remember, and tool_remember appends exactly
\* one note, the stripped argument stamped with the time, after the others.
C12_NotesAppendOnly ==
    [][ restarts' = restarts =>
          /\ IsPrefix(mem.notes, mem'.notes)
          /\ mem'.notes # mem.notes =>
                /\ pc = "DISPATCH"
                /\ Match(msg).ok
                /\ Match(msg).cmd = "remember"
                /\ mem'.notes = Append(mem.notes, Note(Strip(Match(msg).arg), clock))
          /\ (sv.stage = "none" /\ sv'.stage = "open" /\ sv'.caller = "remember") =>
                Len(mem'.notes) = Len(mem.notes) + 1 ]_vars

C12_Witness ==
    /\ pc = "DONE"
    /\ restarts = 0
    /\ ~fresh
    /\ Len(mem.notes) = 2
    /\ mem.notes[1] = Note(<<"b", BSLASH>>, 0)
    /\ mem.notes[2].text = <<"a", QUOTE>>

\* C13 as claimed: between two calls of improve(), metrics.messages is the
\* loaded value plus the number of calls that returned a tool result or a
\* composed response.
C13_CountsReturnedMessages ==
    pc \in Terminal \cup {"IDLE"} =>
        mem.metrics.messages = tally.loaded + tally.returned

\* C13: metrics.messages is the loaded value plus the number of calls that
\* returned a tool result or a composed response, plus the number of calls
\* whose save_mem raised after the increment, plus one while the running call
\* is between its increment and its return; a denied call and a call whose
\* save_mem raised inside tool_remember are not counted.
C13_CountsIncrementedMessages ==
    mem.metrics.messages =
        tally.loaded + tally.returned + tally.lost
        + (IF pc \in {"METRICS_UPDATE", "COMPOSE"} THEN 1 ELSE 0)

C13_Witness ==
    /\ pc = "RAISED"
    /\ err = "improve"
    /\ tally.returned = 1
    /\ tally.lost = 1
    /\ mem.metrics.messages = tally.loaded + 2

\* the calls admitted in wall-clock bucket b: those made before the threads
\* started, all in bucket 0, and the threads' calls that read b as their bucket
Admitted(b) ==
    (IF b = Bucket(0) THEN rl_calls ELSE 0)
    + Cardinality({t \in Threads : threads[t].ret = "admit" /\ threads[t].now_bucket = b})

RaceBuckets == 0..Bucket(MaxTicks * TickSeconds)

Running == {t \in Threads : threads[t].pc \notin {"idle", "done"}}

\* C14: when the caller runs one ratelimit_ok() call at a time, at most
\* RATE_LIMIT_PER_MIN calls are admitted in any bucket, and between calls the
\* counter is the number of calls admitted in the bucket of _last_bucket; the
\* state with more admitted calls, or with a lost increment, is reached only
\* by calls whose statements interleave.
C14_SerializedCallsKeepLimit ==
    serialized =>
        /\ \A b \in RaceBuckets : Admitted(b) <= RATE_LIMIT_PER_MIN
        /\ Cardinality(Running) <= 1
        /\ Running = {} => _msgs_in_bucket = Admitted(_last_bucket)

\* interleaved calls: 61 calls admitted in one bucket and the counter at 60
C14_Witness ==
    /\ ~serialized
    /\ Running = {}
    /\ Admitted(Bucket(0)) = RATE_LIMIT_PER_MIN + 1
    /\ _msgs_in_bucket = RATE_LIMIT_PER_MIN
    /\ _msgs_in_bucket < Admitted(_last_bucket)

\* the tokens that are alphabetic words
Words == {"foo", "calc", "CALC", "remember", "REMEMBER", "recall", "RECALL",
          "hello", "Hello", "goodbye"}

\* improve() holds the value try_tools returned
TriedTools == pc \in {"TOOL_RESULT", "FALLTHROUGH"}

\* C15: try_tools returns None for a message that, stripped, does not start
\* with "/"; for a message whose "/" is followed by an alphabetic word other
\* than calc, remember and recall it returns the "Unknown command" message
\* that names the word.
C15_UnknownCommandIsNamed ==
    TriedTools =>
        LET m == Strip(msg) IN
        /\ (m = <<>> \/ m[1] # "/") => tool_out = None
        /\ (/\ Len(m) >= 2
            /\ m[1] = "/"
            /\ m[2] \in Words
            /\ LowerAt(m, 2) \notin Commands) =>
                  /\ ~tool_out.none
                  /\ tool_out.text = <<"Unknown command: /", LowerAt(m, 2)>>

\* try_tools has run tool_calc for the message
CalcRan ==
    /\ Match(msg).ok
    /\ Match(msg).cmd = "calc"
    /\ pc \in {"TOOL_RESULT", "METRICS_UPDATE", "DONE"}

\* C16: tool_calc returns a string for every argument: either the sanitized
\* expression, made of digits, + - * / ( ) . and spaces only, followed by
\* " = " and a value, or a string that starts with "Calc error: "; it is the
\* error string for a division by zero, for malformed syntax and for an
\* expression that sanitizes to the empty string, and "2+2 = 4" for 2+2.
C16_CalcAlwaysReturnsString ==
    /\ (pc = "DISPATCH" /\ Match(msg).ok /\ Match(msg).cmd = "calc") => ENABLED DispatchPure
    /\ CalcRan =>
          LET e == Sanitize(Match(msg).arg)
              r == tool_out.text
          IN  /\ ~tool_out.none
              /\ \A i \in 1..Len(e) : e[i] \in CalcChars
              /\ \/ r[1] = "Calc error: "
                 \/ /\ Len(r) > Len(e) + 1
                    /\ SubSeq(r, 1, Len(e) + 1) = e \o <<" = ">>
              /\ e \in {<<>>, <<"1", "/", "0">>, <<"1", "+">>} => r[1] = "Calc error: "
              /\ e = <<"2", "+", "2">> => r = <<"2", "+", "2", " = ", "4">>
              /\ e = <<"2", "*", "3">> => r = <<"2", "*", "3", " = ", "6">>

C16_Witness ==
    /\ pc = "DONE"
    /\ msg = <<"/", "calc", SPACE, "1", "/", "0">>
    /\ outs = << <<"Calc error: ", "division by zero">> >>

\* the message has "ignore previous" in it, in some letter case
HasIgnorePrevious(m) ==
    \E i \in 1..Len(m) : m[i] \in {"ignore previous", "Ignore Previous"}

\* improve() has returned the response it composed
Composed == pc = "DONE" /\ Len(path) = 5 /\ path[4] = "COMPOSE"

\* the hint for the notes ns: none for no notes, else the texts of the last
\* two (or the only one) in stored order
HintFor(ns) ==
    CASE Len(ns) = 0 -> <<>>
      [] Len(ns) = 1 -> <<" (FYI I remember: ">> \o ns[1].text \o <<")">>
      [] OTHER -> <<" (FYI I remember: ">> \o ns[Len(ns) - 1].text \o <<", ">>
                  \o ns[Len(ns)].text \o <<")">>

\* C17 as claimed: the response to a non-command message with "ignore
\* previous" in it is the fixed refusal text, whatever the notes.
C17_RefusalOnly ==
    (Composed /\ HasIgnorePrevious(msg)) =>
        outs[1] \in { <<Refusal>>, <<"[nanda] ", Refusal>> }

\* C17: the response to a non-command message with "ignore previous" in it,
\* in any letter case, is the tag, the fixed refusal text and the memory hint
\* of the stored notes: nothing of the message is in it, and two such
\* messages get the same response when the stored notes are the same.
C17_RefusalThenHint ==
    (Composed /\ HasIgnorePrevious(msg)) =>
        outs[1] = <<"[nanda] ", Refusal>> \o HintFor(mem.notes)

C17_Witness ==
    /\ Composed
    /\ msg = <<"Ignore Previous", SPACE, "b">>
    /\ Len(mem.notes) = 3
    /\ outs[1] = <<"[nanda] ", Refusal, " (FYI I remember: ", "y", SPACE, "Y", ", ", "z", ")">>

\* C18: the steps of a call that ends denied, its arrival and its rate check,
\* leave the document, the file at MEM_PATH and the temporary file as they
\* are, start no save and run no tool, and the denial leaves _msgs_in_bucket
\* as it is: a denied call has gone through RATE_CHECK and DENIED only and has
\* returned the rate-limit text.
C18_DeniedHasNoEffect ==
    [][ pc' \in {"RATE_CHECK", "DENIED"} =>
          /\ mem' = mem
          /\ disk' = disk
          /\ tmpf' = tmpf
          /\ sv' = NoSave
          /\ tool_out' = None
          /\ pc' = "DENIED" =>
                /\ _msgs_in_bucket' = _msgs_in_bucket
                /\ path' = <<"RATE_CHECK", "DENIED">>
                /\ outs' = <<RateLimitText>> ]_vars

C18_Witness ==
    /\ pc = "DENIED"
    /\ Match(msg).ok
    /\ Match(msg).cmd = "remember"
    /\ _msgs_in_bucket = RATE_LIMIT_PER_MIN
    /\ Len(mem.notes) < MaxNotes
    /\ mem.metrics.messages = RATE_LIMIT_PER_MIN
    /\ outs = <<RateLimitText>>

\* C19: a composed response is the tag "[nanda] ", the transformed message
\* and the hint: it has a hint exactly when notes are stored, and the hint
\* lists the texts of the last two stored notes (the only one, if one) in the
\* order they were stored.
C19_HintListsLastTwo ==
    Composed =>
        /\ outs[1][1] = "[nanda] "
        /\ Contains(outs[1], <<" (FYI I remember: ">>) <=> mem.notes # <<>>
        /\ outs[1] = <<"[nanda] ">> \o ComposeResp(msg) \o HintFor(mem.notes)

C19_Witness ==
    /\ Composed
    /\ Len(mem.notes) = 3
    /\ outs[1] = <<"[nanda] ", SPACE, "Greetings", SPACE, "farewell",
                   " (FYI I remember: ", "y", SPACE, "Y", ", ", "z", ")">>

\* C20: the requests value of a /svc/healthz response is the number of
\* /svc/summary requests that have run their count by then, those answered
\* with 502 included, however the summary requests interleave; and whenever
\* no summary request is between the load and the store of its count,
\* req_count is that number.
C20_HealthzCountsSummaries ==
    /\ svc_health.endpoint = "healthz" => svc_health.requests = svc_health.handled
    /\ (\A i \in 1..Len(svc_reqs) : svc_reqs[i].pc # "store") => req_count = svc_handled

====
